---- MODULE Spec2Model ----
(***************************************************************************)
(* Model of the baffa byte buffers: the stack buffer `Buffer<S>` and the    *)
(* circular buffer `Ring<S>` of src/src/stack.rs, driven through the        *)
(* default trait methods of src/src/lib.rs (read_slice, read_value,         *)
(* write_slice, write_value).                                               *)
(*                                                                          *)
(* Build modelled: the optimised build.  debug_assert! is compiled out and  *)
(* usize arithmetic wraps modulo 2^UsizeBits.  Bytes of the storage that    *)
(* were never written (MaybeUninit::uninit) hold arbitrary values, and a    *)
(* copy that leaves the storage reads an arbitrary byte (`junk`) and stores *)
(* nothing inside it.                                                       *)
(***************************************************************************)
EXTENDS Integers, Sequences, FiniteSets, TLC

VARIABLES
    cap,      \* mem::size_of::<S>(), the capacity of the storage
    kind,     \* "stack": the value is a Buffer<S>; "ring": it is a Ring<S>
    inner,    \* Buffer::inner, the storage, offset 0 .. cap-1 -> byte
    cursor,   \* Buffer::cursor (the write cursor of a Ring)
    read,     \* Ring::read
    last,     \* the last call: its name, requested size, return value, destination
    hist,     \* history: bytes accepted by write_slice since construction
    iter      \* the Iter / IterMut borrowed from the buffer, if any

vars == <<cap, kind, inner, cursor, read, last, hist, iter>>

----------------------------------------------------------------------------
(* Bounds of the model *)

\* Width of usize in the model.  A Rust object is at most isize::MAX bytes, so
\* 2 * capacity < 2^UsizeBits always: every capacity below keeps that.
UsizeBits == 5
MaxLen == 3         \* longest source slice given to write_slice
MaxDst == 5         \* longest destination slice given to read_slice
MaxRaw == 5         \* largest size or step given to the unsafe primitives

Bytes == {0, 255}
StackCaps == {1, 2, 3, 4}
RingCaps == {1, 2}
TypeSizes == {0, 1, 2}

RECURSIVE Pow2(_)
Pow2(n) == IF n = 0 THEN 1 ELSE 2 * Pow2(n - 1)

Modulus == Pow2(UsizeBits)

Min(a, b) == IF a <= b THEN a ELSE b

SeqsUpTo(n) == UNION {[1..k -> Bytes] : k \in 0..n}
Fill(n, f) == [i \in 1..n |-> f]

Slices == SeqsUpTo(MaxLen)
Dsts == {Fill(n, f) : n \in 0..MaxDst, f \in Bytes}
Values == UNION {[1..k -> Bytes] : k \in TypeSizes}
Cells == {Fill(n, f) : n \in TypeSizes, f \in Bytes}

----------------------------------------------------------------------------
(* usize arithmetic *)

usize_add(a, b) == (a + b) % Modulus
usize_sub(a, b) == (a - b + Modulus) % Modulus
saturating_sub(a, b) == IF a >= b THEN a - b ELSE 0

RECURSIVE BitAnd(_, _)
BitAnd(a, b) ==
    IF a = 0 \/ b = 0 THEN 0
    ELSE (a % 2) * (b % 2) + 2 * BitAnd(a \div 2, b \div 2)

----------------------------------------------------------------------------
(* A call works on a record s: the buffer's fields (cap, inner, cursor,     *)
(* read), the caller's destination memory dst, the return value ret, and    *)
(* the sets rd and wr of storage offsets the call has read and written.     *)

Span(off, n) == off..(off + n - 1)

Load(s, off, junk) == IF off < s.cap THEN s.inner[off] ELSE junk

SrcAt(src, i, junk) == IF i \in 1..Len(src) THEN src[i] ELSE junk

\* ptr::copy_nonoverlapping(src + from, storage + off, n)
copy_in(s, off, src, from, n, junk) ==
    [s EXCEPT
        !.inner = [i \in 0..(s.cap - 1) |->
                      IF i >= off /\ i < off + n
                      THEN SrcAt(src, from + (i - off) + 1, junk)
                      ELSE s.inner[i]],
        !.wr = s.wr \cup Span(off, n)]

\* ptr::copy_nonoverlapping(storage + off, dst + doff, n)
copy_out(s, off, doff, n, junk) ==
    [s EXCEPT
        !.dst = [i \in 1..Len(s.dst) |->
                    IF i > doff /\ i <= doff + n
                    THEN Load(s, off + (i - 1 - doff), junk)
                    ELSE s.dst[i]],
        !.rd = s.rd \cup Span(off, n)]

\* ptr::copy(storage + from, storage + 0, n)
copy_within(s, from, n, junk) ==
    [s EXCEPT
        !.inner = [i \in 0..(s.cap - 1) |->
                      IF i < n THEN Load(s, from + i, junk) ELSE s.inner[i]],
        !.rd = s.rd \cup Span(from, n),
        !.wr = s.wr \cup Span(0, n)]

----------------------------------------------------------------------------
(* Buffer<S> *)

Buffer_remaining(s) == usize_sub(s.cap, s.cursor)

Buffer_len(s) == s.cursor

Buffer_as_slice(s, junk) == [i \in 1..s.cursor |-> Load(s, i - 1, junk)]

\* mutant: the length is set to n even when n is beyond it
Buffer_truncate_or_extend(s, n) == [s EXCEPT !.cursor = n]

Buffer_truncate(s, n) == IF n < s.cursor THEN [s EXCEPT !.cursor = n] ELSE s

\* mutant: the storage is cleared when the length is set
Buffer_set_len_clearing(s, n) ==
    [s EXCEPT !.cursor = n, !.inner = [i \in 0..(s.cap - 1) |-> 0]]

Buffer_set_len(s, n) == [s EXCEPT !.cursor = n]

Buffer_index(s, index, junk) == Load(s, index, junk)

Buffer_advance(s, step) == Buffer_set_len(s, usize_add(s.cursor, step))

\* mutant: the copy starts at the beginning of the storage, not at the cursor
Buffer_write_at_start(s, src, size, junk) ==
    Buffer_advance(copy_in(s, 0, src, 0, size, junk), size)

Buffer_write(s, src, size, junk) ==
    Buffer_advance(copy_in(s, s.cursor, src, 0, size, junk), size)

\* mutant: the cursor is moved back without shifting the remaining bytes
Buffer_consume_no_shift(s, step, junk) ==
    IF step = 0 THEN s
    ELSE Buffer_set_len(s, saturating_sub(s.cursor, step))

Buffer_consume(s, step, junk) ==
    IF step = 0 THEN s
    ELSE LET remaining == saturating_sub(s.cursor, step)
             moved == IF remaining # 0
                      THEN copy_within(s, step, remaining, junk)
                      ELSE s
         IN  Buffer_set_len(moved, remaining)

Buffer_read(s, size, junk) ==
    Buffer_consume(copy_out(s, 0, 0, size, junk), size, junk)

----------------------------------------------------------------------------
(* Ring<S> *)

Ring_from_parts(s, rd) == [s EXCEPT !.read = rd]

\* mutant: the written bytes are not kept by the conversion
Buffer_into_circular_empty(s) == Ring_from_parts([s EXCEPT !.cursor = 0], 0)

Buffer_into_circular(s) == Ring_from_parts(s, 0)

\* (self.buffer, self.read): the Buffer keeps the ring's write cursor
Ring_into_parts(s) == [buffer |-> [s EXCEPT !.read = 0], read |-> s.read]

\* the capacity check of Ring::read and Ring::write (debug builds only)
is_power_of_two(c) == BitAnd(c, c - 1) = 0

mask_idx(idx, c) == BitAnd(idx, usize_sub(c, 1))

Ring_len(s) == usize_sub(s.cursor, s.read)

Ring_is_empty(s) == s.cursor = s.read

Ring_is_full(s) == s.cap = Ring_len(s)

\* mutant: the index is masked without the read cursor added
Ring_index_from_start(s, index, junk) ==
    Load(s, mask_idx(index, s.cap), junk)

Ring_index(s, index, junk) ==
    Load(s, mask_idx(usize_add(s.read, index), s.cap), junk)

\* mutant: the space left is the capacity less the unread bytes
Ring_remaining_unread(s) == saturating_sub(s.cap, Ring_len(s))

Ring_remaining(s) == s.cap

Ring_consume(s, step) == [s EXCEPT !.read = usize_add(s.read, step)]

\* mutant: the second span is copied to the start of the destination
Ring_read_second_span_at_start(s, size, junk) ==
    LET idx == mask_idx(s.read, s.cap)
        read_span == Min(s.cap - idx, size)
        s1 == Ring_consume(copy_out(s, idx, 0, read_span, junk), read_span)
        size2 == size - read_span
        avail_size == Min(size2, Ring_len(s1))
    IN  IF size2 > 0 /\ avail_size > 0
        THEN Ring_consume(copy_out(s1, 0, 0, avail_size, junk), avail_size)
        ELSE s1

Ring_read(s, size, junk) ==
    LET idx == mask_idx(s.read, s.cap)
        read_span == Min(s.cap - idx, size)
        s1 == Ring_consume(copy_out(s, idx, 0, read_span, junk), read_span)
        size2 == size - read_span
        avail_size == Min(size2, Ring_len(s1))
    IN  IF size2 > 0 /\ avail_size > 0
        THEN Ring_consume(copy_out(s1, 0, read_span, avail_size, junk), avail_size)
        ELSE s1

\* mutant: an overflowing advance consumes everything unread
Ring_advance_to_empty(s, step) ==
    LET s1 == [s EXCEPT !.cursor = usize_add(s.cursor, step)]
        read_span == usize_sub(s1.cursor, s1.read)
    IN  IF read_span > s.cap
        THEN Ring_consume(s1, read_span)
        ELSE s1

\* mutant: the over-written bytes are not consumed
Ring_advance_no_consume(s, step) ==
    [s EXCEPT !.cursor = usize_add(s.cursor, step)]

Ring_advance(s, step) ==
    LET s1 == [s EXCEPT !.cursor = usize_add(s.cursor, step)]
        read_span == usize_sub(s1.cursor, s1.read)
    IN  IF read_span > s.cap
        THEN Ring_consume(s1, read_span - s.cap)
        ELSE s1

\* the `while size > 0` loop of Ring::write, then advance(write_span)
RECURSIVE Ring_write_rest(_, _, _, _, _)
Ring_write_rest(s, src, size, write_span, junk) ==
    IF size > 0
    THEN LET avail_size == Min(size, s.cap)
         IN  Ring_write_rest(copy_in(s, 0, src, write_span, avail_size, junk),
                             src, size - avail_size, write_span + avail_size, junk)
    ELSE Ring_advance(s, write_span)

Ring_write(s, src, size, junk) ==
    LET c == mask_idx(s.cursor, s.cap)
        write_span == Min(s.cap - c, size)
    IN  Ring_write_rest(copy_in(s, c, src, 0, write_span, junk),
                        src, size - write_span, write_span, junk)

----------------------------------------------------------------------------
(* The traits of lib.rs, dispatched on the kind k of the buffer *)

capacity(k, s) == s.cap

len(k, s) == IF k = "ring" THEN Ring_len(s) ELSE Buffer_len(s)

available(k, s) == IF k = "ring" THEN Ring_len(s) ELSE len(k, s)

remaining(k, s) == IF k = "ring" THEN Ring_remaining(s) ELSE Buffer_remaining(s)

index(k, s, i, junk) ==
    IF k = "ring" THEN Ring_index(s, i, junk) ELSE Buffer_index(s, i, junk)

read_raw(k, s, size, junk) ==
    IF k = "ring" THEN Ring_read(s, size, junk) ELSE Buffer_read(s, size, junk)

write_raw(k, s, src, size, junk) ==
    IF k = "ring" THEN Ring_write(s, src, size, junk)
    ELSE Buffer_write(s, src, size, junk)

\* ReadBuf::read_slice(&mut self, bytes): bytes is s.dst
read_slice(k, s, junk) ==
    LET read_len == Min(Len(s.dst), available(k, s))
        s1 == IF read_len > 0 THEN read_raw(k, s, Len(s.dst), junk) ELSE s
    IN  [s1 EXCEPT !.ret = read_len]

\* ReadBufExt::read_value(&mut self, val): val is s.dst, size_of::<T>() its length
read_value(k, s, junk) ==
    LET size == Len(s.dst)
    IN  IF size # 0 /\ available(k, s) >= size
        THEN [read_raw(k, s, size, junk) EXCEPT !.ret = size]
        ELSE [s EXCEPT !.ret = 0]

\* mutant: the whole slice is written, not the clamped length
write_slice_unclamped(k, s, bytes, junk) ==
    LET write_len == Min(Len(bytes), remaining(k, s))
        s1 == IF write_len > 0 THEN write_raw(k, s, bytes, Len(bytes), junk) ELSE s
    IN  [s1 EXCEPT !.ret = write_len]

write_slice(k, s, bytes, junk) ==
    LET write_len == Min(Len(bytes), remaining(k, s))
        s1 == IF write_len > 0 THEN write_raw(k, s, bytes, write_len, junk) ELSE s
    IN  [s1 EXCEPT !.ret = write_len]

\* mutant: the value is written without the check of the space left
write_value_unchecked(k, s, val, junk) ==
    LET size == Len(val)
    IN  [write_raw(k, s, val, size, junk) EXCEPT !.ret = size]

write_value(k, s, val, junk) ==
    LET size == Len(val)
    IN  IF size # 0 /\ remaining(k, s) >= size
        THEN [write_raw(k, s, val, size, junk) EXCEPT !.ret = size]
        ELSE [s EXCEPT !.ret = 0]

----------------------------------------------------------------------------
(* Iter and IterMut of iter.rs: the fields cursor and len; a call returns   *)
(* the iterator after it, whether it is Some, and the index it passes to    *)
(* Index::index of the buffer                                               *)

Iter_new(from, to) == [cursor |-> from, len |-> to]

Iter_next(it) ==
    IF it.cursor # it.len
    THEN [it |-> [it EXCEPT !.cursor = usize_add(it.cursor, 1)],
          some |-> TRUE, idx |-> it.cursor]
    ELSE [it |-> it, some |-> FALSE, idx |-> 0]

\* mutant: next_back yields without giving up the element
Iter_next_back_keeps_len(it) ==
    IF it.cursor # it.len
    THEN [it |-> it, some |-> TRUE, idx |-> it.len]
    ELSE [it |-> it, some |-> FALSE, idx |-> 0]

Iter_next_back(it) ==
    IF it.cursor # it.len
    THEN [it |-> [it EXCEPT !.len = usize_sub(it.len, 1)],
          some |-> TRUE, idx |-> it.len]
    ELSE [it |-> it, some |-> FALSE, idx |-> 0]

Iter_last(it) == Iter_next_back(it)

\* (size, Some(size))
Iter_size_hint(it) == <<usize_sub(it.len, it.cursor), usize_sub(it.len, it.cursor)>>

Iter_count(it) == usize_sub(it.len, it.cursor)

\* ExactSizeIterator::len
Iter_len(it) == usize_sub(it.len, it.cursor)

----------------------------------------------------------------------------
(* The program state as a call record, and the commit of a call's result *)

Call(dst) ==
    [cap |-> cap, inner |-> inner, cursor |-> cursor, read |-> read,
     dst |-> dst, ret |-> 0, rd |-> {}, wr |-> {}]

Here == Call(<<>>)

LastN(w, n) == IF Len(w) <= n THEN w ELSE SubSeq(w, Len(w) - n + 1, Len(w))

Storages(c) == [0..(c - 1) -> Bytes]

Commit(r, op, n, h) ==
    /\ inner' = r.inner
    /\ cursor' = r.cursor
    /\ read' = r.read
    /\ last' = [op |-> op, n |-> n, ret |-> r.ret, out |-> r.dst]
    /\ hist' = h
    /\ UNCHANGED <<cap, kind, iter>>

NoHist == [W |-> <<>>, only_writes |-> FALSE]

\* no iterator is borrowed from the buffer
NoIter ==
    [from |-> 0, to |-> 0, it |-> [cursor |-> 0, len |-> 0],
     mutable |-> FALSE, alive |-> FALSE, yielded |-> <<>>]

\* Buffer::new() / Ring::new(): cursor and read are 0, the storage is uninitialised
InitAs(k, caps) ==
    /\ kind = k
    /\ cap \in caps
    /\ inner \in Storages(cap)
    /\ cursor = 0
    /\ read = 0
    /\ last = [op |-> "new", n |-> 0, ret |-> 0, out |-> <<>>]
    /\ hist = [W |-> <<>>, only_writes |-> TRUE]
    /\ iter = NoIter

----------------------------------------------------------------------------
(* Actions: one per call of the public API *)

\* write_slice and write_value pass size <= src.len(): the copy never leaves
\* the source, so the byte read outside it is immaterial (0)
WriteSlice(bytes) ==
    /\ kind \in {"stack", "ring"}
    /\ LET r == write_slice(kind, Here, bytes, 0)
           h == IF hist.only_writes
                THEN [hist EXCEPT !.W = LastN(hist.W \o SubSeq(bytes, 1, r.ret), cap)]
                ELSE NoHist
       IN  Commit(r, "write_slice", Len(bytes), h)

WriteValue(val) ==
    /\ kind \in {"stack", "ring"}
    /\ Commit(write_value(kind, Here, val, 0), "write_value", Len(val), NoHist)

ReadSlice(dst, junk) ==
    /\ kind \in {"stack", "ring"}
    /\ Commit(read_slice(kind, Call(dst), junk), "read_slice", Len(dst), NoHist)

ReadValue(cell, junk) ==
    /\ kind \in {"stack", "ring"}
    /\ Commit(read_value(kind, Call(cell), junk), "read_value", Len(cell), NoHist)

Truncate(n) ==
    /\ kind = "stack"
    /\ Commit(Buffer_truncate(Here, n), "truncate", n, NoHist)

\* unsafe fn consume: the caller keeps step <= len()
Consume(step, junk) ==
    /\ kind = "stack"
    /\ step <= Buffer_len(Here)
    /\ Commit(Buffer_consume(Here, step, junk), "consume", step, NoHist)

Init == \/ InitAs("stack", StackCaps)
        \/ InitAs("ring", RingCaps)

Next ==
    \/ \E bytes \in Slices : WriteSlice(bytes)
    \/ \E val \in Values : WriteValue(val)
    \/ \E dst \in Dsts, junk \in Bytes : ReadSlice(dst, junk)
    \/ \E cell \in Cells, junk \in Bytes : ReadValue(cell, junk)
    \/ \E n \in 0..MaxLen : Truncate(n)
    \/ \E step \in 0..MaxLen, junk \in Bytes : Consume(step, junk)

Spec == Init /\ [][Next]_vars

----------------------------------------------------------------------------
(* The ring of tests/stack.rs (test_ring_buffer): StaticBuffer::<u64>,      *)
(* turned circular, driven with the calls of the test (write_slice,         *)
(* write_value, read_value) on its u64 and u32 values                       *)

TestCap == 8
TestSlices == {Fill(n, f) : n \in {4, 8}, f \in Bytes}
TestValues == {Fill(4, f) : f \in Bytes}
TestCells == {Fill(n, f) : n \in {4, 8}, f \in Bytes}

InitTest == InitAs("ring", {TestCap})

NextTest ==
    \/ \E bytes \in TestSlices : WriteSlice(bytes)
    \/ \E val \in TestValues : WriteValue(val)
    \/ \E cell \in TestCells, junk \in Bytes : ReadValue(cell, junk)

SpecTest == InitTest /\ [][NextTest]_vars

----------------------------------------------------------------------------
(* A Buffer that is written and then turned circular (Buffer::into_circular) *)
(* and driven as a ring, as tests/stack.rs does                               *)

IntoCircular ==
    /\ kind = "stack"
    /\ LET r == Buffer_into_circular(Here)
       IN  /\ inner' = r.inner
           /\ cursor' = r.cursor
           /\ read' = r.read
    /\ kind' = "ring"
    /\ last' = [op |-> "into_circular", n |-> cursor, ret |-> 0, out |-> <<>>]
    /\ hist' = NoHist
    /\ UNCHANGED <<cap, iter>>

InitConv == InitAs("stack", StackCaps)

NextConv ==
    \/ \E bytes \in Slices : WriteSlice(bytes)
    \/ \E val \in Values : WriteValue(val)
    \/ \E cell \in Cells, junk \in Bytes : ReadValue(cell, junk)
    \/ \E n \in 0..MaxLen : Truncate(n)
    \/ IntoCircular

SpecConv == InitConv /\ [][NextConv]_vars

----------------------------------------------------------------------------
(* A Ring driven through the unsafe primitives (write, advance, consume,    *)
(* read). consume and read are called as their contract asks, with          *)
(* step, size <= available(). hist.W is the queue of the unread bytes.      *)

RawSrcs == SeqsUpTo(MaxRaw)

\* the bytes of the storage that advance(step) declares written
Exposed(step) ==
    [i \in 1..step |-> inner[mask_idx(usize_add(cursor, i - 1), cap)]]

RawWrite(src, junk) ==
    /\ kind = "ring"
    /\ Commit(Ring_write(Here, src, Len(src), junk), "write", Len(src),
              [hist EXCEPT !.W = LastN(hist.W \o src, cap)])

RawAdvance(step) ==
    /\ kind = "ring"
    /\ Commit(Ring_advance(Here, step), "advance", step,
              [W |-> LastN(hist.W \o Exposed(step), cap), only_writes |-> FALSE])

RawConsume(step) ==
    /\ kind = "ring"
    /\ step <= Ring_len(Here)
    /\ Commit(Ring_consume(Here, step), "consume", step,
              [W |-> SubSeq(hist.W, step + 1, Len(hist.W)), only_writes |-> FALSE])

RawRead(size, junk) ==
    /\ kind = "ring"
    /\ size <= Ring_len(Here)
    /\ Commit(Ring_read(Call(Fill(size, 0)), size, junk), "read", size,
              [W |-> SubSeq(hist.W, size + 1, Len(hist.W)), only_writes |-> FALSE])

InitRaw == InitAs("ring", RingCaps)

NextRaw ==
    \/ \E src \in RawSrcs, junk \in Bytes : RawWrite(src, junk)
    \/ \E step \in 0..MaxRaw : RawAdvance(step)
    \/ \E step \in 0..MaxRaw : RawConsume(step)
    \/ \E size \in 0..MaxRaw, junk \in Bytes : RawRead(size, junk)

SpecRaw == InitRaw /\ [][NextRaw]_vars

----------------------------------------------------------------------------
(* An iterator over [from, to) of a buffer holding len() bytes, driven with *)
(* next(), next_back() and last(). The buffer is borrowed and does not      *)
(* change. last() takes the iterator by value: an Iter is Copy and stays    *)
(* usable, an IterMut is gone.                                              *)

None == -1

IterCall(op, r, it, alive, junk) ==
    /\ iter' = [iter EXCEPT
                   !.it = it,
                   !.alive = alive,
                   !.yielded = IF r.some /\ op # "last"
                               THEN Append(@, [op |-> op, idx |-> r.idx])
                               ELSE @]
    /\ last' = [op |-> op, n |-> r.idx,
                ret |-> IF r.some THEN index(kind, Here, r.idx, junk) ELSE None,
                out |-> <<>>]
    /\ UNCHANGED <<cap, kind, inner, cursor, read, hist>>

IterNext(junk) ==
    /\ iter.alive
    /\ LET r == Iter_next(iter.it) IN IterCall("next", r, r.it, TRUE, junk)

IterNextBack(junk) ==
    /\ iter.alive
    /\ LET r == Iter_next_back(iter.it) IN IterCall("next_back", r, r.it, TRUE, junk)

IterLast(junk) ==
    /\ iter.alive
    /\ LET r == Iter_last(iter.it)
       IN  IterCall("last", r, IF iter.mutable THEN r.it ELSE iter.it,
                    ~iter.mutable, junk)

\* Iter::new(&buf, from, to) / IterMut::new(&mut buf, from, to) on a buffer
\* that holds 0..capacity written bytes
InitIter ==
    /\ \/ kind = "stack" /\ cap \in StackCaps
       \/ kind = "ring" /\ cap \in RingCaps
    /\ inner \in Storages(cap)
    /\ cursor \in 0..cap
    /\ read = 0
    /\ hist = NoHist
    /\ last = [op |-> "iter", n |-> 0, ret |-> 0, out |-> <<>>]
    /\ \E from \in 0..cap, to \in 0..cap, m \in BOOLEAN :
           /\ from <= to
           /\ to <= len(kind, Here)
           /\ iter = [from |-> from, to |-> to, it |-> Iter_new(from, to),
                      mutable |-> m, alive |-> TRUE, yielded |-> <<>>]

NextIter ==
    \/ \E junk \in Bytes : IterNext(junk)
    \/ \E junk \in Bytes : IterNextBack(junk)
    \/ \E junk \in Bytes : IterLast(junk)

SpecIter == InitIter /\ [][NextIter]_vars

----------------------------------------------------------------------------
(* A Buffer driven as tests/stack.rs (test_stack_buffer) drives it: the     *)
(* calls of Spec and the unsafe set_len, called with cursor <= capacity()   *)
(* as it asks. hist.W keeps the bytes of a read that emptied the buffer     *)
(* right before set_len.                                                    *)

SetLen(n) ==
    /\ kind = "stack"
    /\ n <= cap
    /\ Commit(Buffer_set_len(Here, n), "set_len", n,
              [W |-> IF /\ last.op \in {"read_slice", "read_value"}
                        /\ last.ret > 0
                        /\ cursor = 0
                     THEN SubSeq(last.out, 1, last.ret)
                     ELSE <<>>,
               only_writes |-> FALSE])

InitStack == InitAs("stack", StackCaps)

NextStack ==
    \/ \E bytes \in Slices : WriteSlice(bytes)
    \/ \E val \in Values : WriteValue(val)
    \/ \E dst \in Dsts, junk \in Bytes : ReadSlice(dst, junk)
    \/ \E cell \in Cells, junk \in Bytes : ReadValue(cell, junk)
    \/ \E n \in 0..MaxLen : Truncate(n)
    \/ \E step \in 0..MaxLen, junk \in Bytes : Consume(step, junk)
    \/ \E n \in 0..(MaxLen + 1) : SetLen(n)

SpecStack == InitStack /\ [][NextStack]_vars

----------------------------------------------------------------------------
(* A Ring driven with write_slice and read_slice and then taken apart with  *)
(* Ring::into_parts: the value is a Buffer again, the read cursor is        *)
(* returned next to it (last.ret)                                           *)

IntoParts ==
    /\ kind = "ring"
    /\ LET p == Ring_into_parts(Here)
       IN  /\ inner' = p.buffer.inner
           /\ cursor' = p.buffer.cursor
           /\ read' = p.buffer.read
           /\ last' = [op |-> "into_parts", n |-> 0, ret |-> p.read, out |-> <<>>]
    /\ kind' = "stack"
    /\ hist' = NoHist
    /\ UNCHANGED <<cap, iter>>

InitParts == InitAs("ring", RingCaps)

NextParts ==
    \/ \E bytes \in Slices : WriteSlice(bytes)
    \/ \E dst \in Dsts, junk \in Bytes : ReadSlice(dst, junk)
    \/ IntoParts

SpecParts == InitParts /\ [][NextParts]_vars

----------------------------------------------------------------------------
(* Vocabulary of the properties *)

\* the readable bytes, oldest first, as the Index impls expose them
Content(k, s) == [i \in 1..available(k, s) |-> index(k, s, i - 1, 0)]

\* the storage offsets that hold the readable bytes
Readable(k, s) ==
    IF k = "ring"
    THEN {mask_idx(usize_add(s.read, i), s.cap) : i \in 0..(Ring_len(s) - 1)}
    ELSE 0..(s.cursor - 1)

SameBuffer(s, t) ==
    /\ s.inner = t.inner
    /\ s.cursor = t.cursor
    /\ s.read = t.read

IsStack == kind = "stack"
IsRing == kind = "ring"

----------------------------------------------------------------------------
(* C1: a Ring reached from Ring::new() through write_slice, read_slice,     *)
(* write_value and read_value always has 0 <= available() <= capacity().    *)
RingAvailableWithinCapacity ==
    IsRing => /\ 0 <= available(kind, Here)
              /\ available(kind, Here) <= capacity(kind, Here)

(* C2: a Buffer reached from Buffer::new() through write_slice,             *)
(* write_value, read_slice, read_value, truncate and consume(step <= len)   *)
(* has 0 <= len() <= capacity() and len() + remaining() == capacity().      *)
StackCursorWithinCapacity ==
    IsStack => /\ 0 <= len(kind, Here)
               /\ len(kind, Here) <= capacity(kind, Here)
               /\ len(kind, Here) + remaining(kind, Here) = capacity(kind, Here)

\* a slice longer than the free space was clamped and filled the buffer
StackFilledByClampedWrite ==
    /\ IsStack
    /\ last.op = "write_slice"
    /\ 0 < last.ret /\ last.ret < last.n
    /\ len(kind, Here) = capacity(kind, Here)
    /\ remaining(kind, Here) = 0

(* C3: on a Ring that has only seen write_slice calls, with W the           *)
(* concatenation of the accepted bytes, available() == min(|W|, C), reading *)
(* all available bytes yields the last min(|W|, C) bytes of W in order, and *)
(* every write_slice returned min(src.len(), C), never less because the     *)
(* ring was full.  hist.W is W cut to its last C bytes.                     *)
RingOverwriteOnFull ==
    (IsRing /\ hist.only_writes) =>
        /\ available(kind, Here) = Len(hist.W)
        /\ \A junk \in Bytes :
              LET r == read_slice(kind, Call(Fill(available(kind, Here), 0)), junk)
              IN  /\ r.ret = Len(hist.W)
                  /\ r.dst = hist.W
        /\ last.op = "write_slice" => last.ret = Min(last.n, cap)

\* older bytes have been overwritten, and the write wrapped around the end
RingHasOverwritten ==
    /\ IsRing /\ hist.only_writes
    /\ last.op = "write_slice" /\ last.ret > 1
    /\ cursor > cap + 1
    /\ read > 0
    /\ mask_idx(cursor, cap) # 0
    /\ available(kind, Here) = cap
    /\ \E i, j \in 1..Len(hist.W) : hist.W[i] # hist.W[j]

(* C6: read_slice(dst), on a Buffer and on a Ring and for a destination of  *)
(* any length, returns k = min(dst.len(), available()), copies the k oldest *)
(* readable bytes in order into dst[0..k), leaves dst[k..) untouched, reads *)
(* no storage byte outside the readable region and decreases available()    *)
(* by exactly k.                                                            *)
ReadSliceCopiesExactlyK ==
    \A dst \in Dsts, junk \in Bytes :
        LET k == Min(Len(dst), available(kind, Here))
            r == read_slice(kind, Call(dst), junk)
        IN  /\ r.ret = k
            /\ SubSeq(r.dst, 1, k) = SubSeq(Content(kind, Here), 1, k)
            /\ \A i \in (k + 1)..Len(dst) : r.dst[i] = dst[i]
            /\ r.rd \subseteq Readable(kind, Here)
            /\ available(kind, r) = available(kind, Here) - k

(* C7: on a Buffer, write_slice(src) with src.len() > remaining() appends   *)
(* exactly the first remaining() bytes of src after the existing content,   *)
(* returns that count, leaves the readable bytes unchanged and writes no    *)
(* byte at an offset >= capacity(); with remaining() == 0 it returns 0 and  *)
(* changes nothing.                                                         *)
StackWriteSliceClamps ==
    IsStack =>
        \A bytes \in Slices, junk \in Bytes :
            Len(bytes) > remaining(kind, Here) =>
                LET free == remaining(kind, Here)
                    r == write_slice(kind, Here, bytes, junk)
                IN  /\ r.ret = free
                    /\ Content(kind, r) = Content(kind, Here) \o SubSeq(bytes, 1, free)
                    /\ len(kind, r) = capacity(kind, Here)
                    /\ \A off \in r.wr : off < capacity(kind, Here)
                    /\ \A off \in r.wr : off >= len(kind, Here)
                    /\ free = 0 => (r.ret = 0 /\ r.wr = {} /\ SameBuffer(r, Here))

\* a write into two free bytes of a buffer that already holds content
StackClampedAppend ==
    /\ IsStack
    /\ last.op = "write_slice"
    /\ last.n = 3 /\ last.ret = 2
    /\ cap = 4 /\ cursor = 4
    /\ inner[2] # inner[3]

(* C9: on a Buffer with readable content b[0..n) and 0 <= step <= n,        *)
(* consume(step) leaves the readable content b[step..n) at offset 0 and     *)
(* len() == n - step.                                                       *)
StackConsumeShifts ==
    IsStack =>
        \A step \in 0..len(kind, Here), junk \in Bytes :
            LET n == len(kind, Here)
                r == Buffer_consume(Here, step, junk)
            IN  /\ len(kind, r) = n - step
                /\ Content(kind, r) = SubSeq(Content(kind, Here), step + 1, n)
                /\ Buffer_as_slice(r, junk) = SubSeq(Buffer_as_slice(Here, junk), step + 1, n)

\* a partial consume has moved at least two differing bytes to the front
StackPartlyConsumed ==
    /\ IsStack
    /\ last.op = "consume"
    /\ last.n > 0
    /\ cursor >= 2
    /\ inner[0] # inner[1]

(* C10: write_value<T> on a Buffer returns 0 and leaves cursor and readable *)
(* bytes unchanged when remaining() < sizeof(T) or sizeof(T) == 0;          *)
(* otherwise it appends the sizeof(T) bytes of the value, increases len()   *)
(* by sizeof(T) and returns sizeof(T).                                      *)
StackWriteValueAllOrNothing ==
    IsStack =>
        \A val \in Values, junk \in Bytes :
            LET size == Len(val)
                r == write_value(kind, Here, val, junk)
            IN  IF remaining(kind, Here) < size \/ size = 0
                THEN /\ r.ret = 0
                     /\ len(kind, r) = len(kind, Here)
                     /\ Content(kind, r) = Content(kind, Here)
                     /\ r.wr = {}
                ELSE /\ r.ret = size
                     /\ len(kind, r) = len(kind, Here) + size
                     /\ Content(kind, r) = Content(kind, Here) \o val

\* a value that does not fit the one free byte has been refused
StackValueRefused ==
    /\ IsStack
    /\ last.op = "write_value"
    /\ last.n = 2 /\ last.ret = 0
    /\ remaining(kind, Here) = 1
    /\ cursor > 0

\* write_slice(bytes), then at once read_slice into a destination of the same length
RoundTrip(bytes, junk) ==
    LET w == write_slice(kind, Here, bytes, junk)
    IN  read_slice(kind, [w EXCEPT !.dst = Fill(Len(bytes), 0), !.rd = {}, !.wr = {}], junk)

(* C8 as stated: in any reachable state of a Buffer or a Ring, writing a    *)
(* byte sequence of length n <= remaining() and then immediately reading n  *)
(* bytes yields exactly the sequence just written.                          *)
RoundTripInAnyState ==
    \A bytes \in Slices, junk \in Bytes :
        Len(bytes) <= remaining(kind, Here) =>
            RoundTrip(bytes, junk).dst = bytes

(* C8 as amended: the same, for a buffer that holds no unread bytes         *)
(* (available() == 0) when the sequence is written.                         *)
RoundTripFromEmpty ==
    available(kind, Here) = 0 =>
        \A bytes \in Slices, junk \in Bytes :
            Len(bytes) <= remaining(kind, Here) =>
                LET r == RoundTrip(bytes, junk)
                IN  /\ r.ret = Len(bytes)
                    /\ r.dst = bytes
                    /\ available(kind, r) = 0

\* a ring drained by a read that returned MaxLen differing bytes, its cursors
\* away from the start of the storage: the bytes read are what a round trip
\* from here yields again
RoundTripDone ==
    /\ IsRing
    /\ last.op = "read_slice"
    /\ last.n = MaxLen /\ last.ret = MaxLen
    /\ available(kind, Here) = 0
    /\ mask_idx(read, cap) # 0
    /\ \E i, j \in 1..MaxLen : last.out[i] # last.out[j]
    /\ RoundTrip(last.out, 0).dst = last.out

(* C5: in every reachable Ring state and for every i in [0, available()),   *)
(* ring[i] is the byte that the (i+1)-th position of a subsequent read      *)
(* receives.                                                                *)
RingIndexIsReadOrder ==
    IsRing =>
        \A dst \in Dsts, junk \in Bytes :
            Len(dst) <= available(kind, Here) =>
                LET r == read_slice(kind, Call(dst), junk)
                IN  \A i \in 0..(Len(dst) - 1) :
                        r.dst[i + 1] = Ring_index(Here, i, junk)

\* C5 restricted to the states where available() <= capacity()
RingIndexIsReadOrderWhenSound ==
    (IsRing /\ available(kind, Here) <= cap) => RingIndexIsReadOrder

\* write_slice of eight 0xFF bytes, then write_slice of four 0x00 bytes
FillThenOverwrite(junk) ==
    LET a == write_slice(kind, Here, Fill(8, 255), junk)
    IN  write_slice(kind, [a EXCEPT !.rd = {}, !.wr = {}], Fill(4, 0), junk)

(* C4 as stated: on a Ring of capacity 8, writing 8 bytes 0xFF and then 4   *)
(* bytes 0x00 leaves available() == 8 with the indexed bytes [4..8) equal   *)
(* to 0xFF and the indexed bytes [0..4) equal to 0x00.                      *)
OverwriteNewestFirst ==
    (IsRing /\ cap = 8) =>
        \A junk \in Bytes :
            LET r == FillThenOverwrite(junk)
            IN  /\ available(kind, r) = 8
                /\ \A i \in 4..7 : Ring_index(r, i, junk) = 255
                /\ \A i \in 0..3 : Ring_index(r, i, junk) = 0

(* C4 as amended: ... leaves available() == 8 with the indexed bytes [0..4) *)
(* equal to 0xFF (the four oldest bytes that survive) and the indexed bytes *)
(* [4..8) equal to 0x00 (the bytes just written).                           *)
OverwriteOldestFirst ==
    (IsRing /\ cap = 8) =>
        \A junk \in Bytes :
            LET r == FillThenOverwrite(junk)
            IN  /\ r.ret = 4
                /\ available(kind, r) = 8
                /\ \A i \in 0..3 : Ring_index(r, i, junk) = 255
                /\ \A i \in 4..7 : Ring_index(r, i, junk) = 0

\* the ring of the test after its write of four zero bytes over a full ring
OverwrittenHalf ==
    /\ IsRing /\ cap = 8
    /\ last.op \in {"write_slice", "write_value"}
    /\ last.n = 4 /\ last.ret = 4
    /\ available(kind, Here) = 8
    /\ Content(kind, Here) = Fill(4, 255) \o Fill(4, 0)

----------------------------------------------------------------------------
\* destinations of read_value for T of 0, 1, 2 and 4 bytes
WideCells == {Fill(n, f) : n \in TypeSizes \cup {4}, f \in Bytes}

\* read_value(cell): refuses without touching anything, or delivers the
\* size_of::<T>() oldest readable bytes
ReadValueAllOrNothing(cell, junk) ==
    LET size == Len(cell)
        r == read_value(kind, Call(cell), junk)
    IN  IF available(kind, Here) < size \/ size = 0
        THEN /\ r.ret = 0
             /\ r.dst = cell
             /\ r.rd = {}
             /\ SameBuffer(r, Here)
        ELSE /\ r.ret = size
             /\ r.dst = SubSeq(Content(kind, Here), 1, size)
             /\ r.rd \subseteq Readable(kind, Here)
             /\ available(kind, r) = available(kind, Here) - size

(* C11: read_value<T> on a Buffer and on a Ring returns 0, copies nothing   *)
(* and leaves cursors and content unchanged when available() < sizeof(T)    *)
(* or sizeof(T) == 0; otherwise it copies the sizeof(T) oldest readable     *)
(* bytes, decreases available() by exactly sizeof(T) and returns sizeof(T). *)
ReadValueIsAllOrNothing ==
    \A cell \in WideCells, junk \in Bytes : ReadValueAllOrNothing(cell, junk)

\* C11 restricted to the states where available() <= capacity()
ReadValueIsAllOrNothingWhenSound ==
    available(kind, Here) <= cap => ReadValueIsAllOrNothing

(* C12: a Ring never rejects a write for being full: remaining() equals     *)
(* capacity() in every reachable state, write_slice(src) always returns     *)
(* min(src.len(), capacity()), and write_value<T> with                      *)
(* 0 < sizeof(T) <= capacity() always returns sizeof(T).                    *)
RingNeverRejectsWrite ==
    IsRing =>
        /\ remaining(kind, Here) = capacity(kind, Here)
        /\ \A bytes \in Slices :
               write_slice(kind, Here, bytes, 0).ret = Min(Len(bytes), cap)
        /\ \A val \in Values :
               (0 < Len(val) /\ Len(val) <= cap) =>
                   write_value(kind, Here, val, 0).ret = Len(val)

\* a write-only ring whose last write_slice was accepted in full although
\* the ring already held capacity() unread bytes
RingFullAcceptedWrite ==
    /\ IsRing
    /\ hist.only_writes
    /\ last.op = "write_slice"
    /\ last.ret = cap
    /\ cursor >= 2 * cap
    /\ available(kind, Here) = cap

(* C14: Buffer::truncate only shortens and is idempotent: truncate(n) with  *)
(* n >= len() changes nothing, truncate(n) with n < len() sets len() == n   *)
(* and keeps the first n bytes, and truncating twice to n equals once.      *)
TruncateOnlyShortens ==
    IsStack =>
        \A n \in 0..(cap + 1) :
            LET r == Buffer_truncate(Here, n)
            IN  /\ r.inner = inner
                /\ r.read = read
                /\ n >= Buffer_len(Here) => r.cursor = cursor
                /\ n < Buffer_len(Here) =>
                       /\ Buffer_len(r) = n
                       /\ Buffer_as_slice(r, 0) = SubSeq(Buffer_as_slice(Here, 0), 1, n)
                /\ Buffer_truncate(r, n) = r

\* truncate(n) has been called on a Buffer holding fewer than n bytes and
\* left them in place
TruncatedBeyondLen ==
    /\ IsStack
    /\ last.op = "truncate"
    /\ cursor > 0
    /\ last.n > cursor

\* write_slice(bytes) that wraps past the end of the storage, then a
\* read_slice of everything readable
WrapAround(bytes, junk) ==
    LET n == Len(bytes)
        p == mask_idx(cursor, cap)
        w == write_slice(kind, Here, bytes, junk)
        all == available(kind, w)
        r == read_slice(kind, [w EXCEPT !.dst = Fill(all, 0), !.rd = {}], junk)
    IN  (1 <= n /\ n <= cap /\ p + n > cap) =>
            /\ w.ret = n
            /\ \A i \in 0..(n - 1) :
                   w.inner[IF i < cap - p THEN p + i ELSE i - (cap - p)] = bytes[i + 1]
            /\ all >= n
            /\ r.ret = all
            /\ LastN(r.dst, n) = bytes
            /\ r.rd \subseteq 0..(cap - 1)
            /\ available(kind, r) = 0

(* C13: for a Ring in any reachable state with physical write offset        *)
(* p = write mod C, a write of n <= C bytes with p + n > C places the first *)
(* C - p bytes at physical [p, C) and the other n - (C - p) at              *)
(* [0, n - (C - p)); reading all available bytes afterwards returns those   *)
(* n bytes as the final n bytes read, the read being split the same way.    *)
RingWriteWrapsAround ==
    IsRing => \A bytes \in Slices, junk \in Bytes : WrapAround(bytes, junk)

\* C13 restricted to the states where available() <= capacity()
RingWriteWrapsAroundWhenSound ==
    available(kind, Here) <= cap => RingWriteWrapsAround

\* into_circular() applied to the Buffer of the current state
IntoCircularKeeps ==
    LET w == Buffer_len(Here)
        r == Buffer_into_circular(Here)
    IN  /\ r.read = 0
        /\ r.cursor = w
        /\ Ring_len(r) = w
        /\ \A i \in 0..(w - 1) : Ring_index(r, i, 0) = Buffer_index(Here, i, 0)
        /\ r.inner = inner

(* C15: converting a Buffer with len() == w into a Ring via into_circular   *)
(* yields a ring with read == 0, write == w, available() == w and ring[i]   *)
(* equal to the original buffer[i] for every i in [0, w); no storage byte   *)
(* changes.                                                                 *)
IntoCircularKeepsContent == IsStack => IntoCircularKeeps

\* C15 for the Buffers whose capacity is a power of two
IntoCircularKeepsContentPow2 ==
    (IsStack /\ is_power_of_two(cap)) => IntoCircularKeeps

\* a Buffer of 4 bytes holding two or more bytes, not all the same, has
\* been turned circular
TurnedCircular ==
    /\ IsRing
    /\ last.op = "into_circular"
    /\ cap = 4
    /\ last.n >= 2
    /\ cursor = last.n
    /\ inner[0] # inner[1]

\* in SpecRaw the ring holds exactly the bytes written and not yet read
RawRingHoldsUnread ==
    /\ Ring_len(Here) = Len(hist.W)
    /\ Ring_len(Here) <= cap
    /\ Content(kind, Here) = hist.W

(* C17: in every state reachable from Ring::new() through write, advance,   *)
(* consume and read, also after more bytes were written than the w-bit      *)
(* cursor can count, the write cursor is >= the read cursor, neither        *)
(* cursor decreases across a step, and write - read is the number of        *)
(* unread bytes.                                                            *)
RingCursorsMonotone ==
    /\ [](cursor >= read /\ cursor - read = Len(hist.W))
    /\ [][cursor' >= cursor /\ read' >= read]_vars

\* advance(step) applied to the ring of the current state, holding a bytes;
\* cursor movements are counted modulo 2^UsizeBits
AdvanceForcesRead(step) ==
    LET a == Ring_len(Here)
        r == Ring_advance(Here, step)
    IN  a <= cap =>
            /\ usize_sub(r.cursor, cursor) = step
            /\ a + step > cap => usize_sub(r.read, read) = a + step - cap
            /\ a + step <= cap => r.read = read
            /\ Ring_len(r) = Min(a + step, cap)
            /\ r.inner = inner

(* C18: Ring advance(step) from a state with available() == a <= C: the     *)
(* write cursor increases by exactly step; if a + step > C the read cursor  *)
(* is force-advanced by exactly a + step - C, otherwise it is unchanged; in *)
(* both cases available() afterwards equals min(a + step, C).               *)
AdvanceClampsToCapacity ==
    IsRing => \A step \in 0..(Modulus - 1) : AdvanceForcesRead(step)

\* C18 for the steps that do not overflow usize together with the unread bytes
AdvanceClampsToCapacityNoOverflow ==
    IsRing =>
        \A step \in 0..(Modulus - 1) :
            Ring_len(Here) + step < Modulus => AdvanceForcesRead(step)

\* advance(step) with step > capacity has just forced the read cursor on
AdvancedPastCapacity ==
    /\ IsRing
    /\ last.op = "advance"
    /\ last.n > cap
    /\ Ring_len(Here) = cap
    /\ Len(hist.W) = cap

\* Ring::read(ptr, size) applied to the ring of the current state
ReadClamps(size, junk) ==
    LET a == Ring_len(Here)
        r == Ring_read(Call(Fill(size, 0)), size, junk)
        consumed == usize_sub(r.read, read)
    IN  /\ consumed <= a
        /\ Ring_len(r) = a - consumed
        /\ r.rd \subseteq Readable(kind, Here)

(* C19: Ring read(ptr, size) clamps internally: for any size, including     *)
(* size > available(), it consumes at most available() bytes, so the read   *)
(* cursor never passes the write cursor and available() stays >= 0          *)
(* afterwards.                                                              *)
RingReadClampsToAvailable ==
    IsRing => \A size \in 0..MaxRaw, junk \in Bytes : ReadClamps(size, junk)

\* C19 for the sizes the callers of read are required to pass
RingReadWithinAvailable ==
    IsRing =>
        \A size \in 0..MaxRaw, junk \in Bytes :
            size <= Ring_len(Here) => ReadClamps(size, junk)

\* Ring::write(ptr, size) of a source longer than the capacity, applied to
\* the ring of the current state
LongWrite(src, junk) ==
    LET size == Len(src)
        r == Ring_write(Here, src, size, junk)
    IN  size > cap =>
            /\ usize_sub(r.cursor, cursor) = size
            /\ Ring_len(r) = cap
            /\ Content(kind, r) = LastN(src, cap)
            /\ r.wr \subseteq 0..(cap - 1)

(* C20: Ring raw write(ptr, size) with size > C terminates after copying at *)
(* most C bytes per loop iteration, advances the write cursor by exactly    *)
(* size, leaves available() == C, and afterwards the ring's logical content *)
(* ring[0..C) equals the last C bytes of the source in order, for every     *)
(* starting physical write offset.                                          *)
RingLongWriteKeepsLastC ==
    IsRing => \A src \in RawSrcs, junk \in Bytes : LongWrite(src, junk)

\* C20 restricted to the states where available() <= capacity()
RingLongWriteKeepsLastCWhenSound ==
    Ring_len(Here) <= cap => RingLongWriteKeepsLastC

\* a write of 5 bytes, begun at physical offset 1 of a ring of 2 bytes, has
\* left two different bytes readable
LongWriteFromOddOffset ==
    /\ IsRing
    /\ cap = 2
    /\ last.op = "write"
    /\ last.n = 5
    /\ mask_idx(usize_sub(cursor, 5), cap) = 1
    /\ Ring_len(Here) = cap
    /\ Len(hist.W) = 2
    /\ hist.W[1] # hist.W[2]
    /\ Content(kind, Here) = hist.W

\* the indexes next() was given, in call order, and those of next_back()
IndexesOf(op) ==
    LET calls == SelectSeq(iter.yielded, LAMBDA y : y.op = op)
    IN  [k \in 1..Len(calls) |-> calls[k].idx]

(* C16: an iterator constructed over [from, to) with                        *)
(* 0 <= from <= to <= len() only ever indexes the buffer inside [from, to), *)
(* under any interleaving of next(), next_back() and last(): next() yields  *)
(* the indices from, from+1, ... ascending and next_back() yields the       *)
(* indices to-1, to-2, ... descending.                                      *)
IterStaysInRange ==
    /\ \A k \in 1..Len(iter.yielded) :
           iter.from <= iter.yielded[k].idx /\ iter.yielded[k].idx < iter.to
    /\ (last.op \in {"next", "next_back", "last"} /\ last.ret # None) =>
           (iter.from <= last.n /\ last.n < iter.to)
    /\ \A k \in 1..Len(IndexesOf("next")) :
           IndexesOf("next")[k] = iter.from + (k - 1)
    /\ \A k \in 1..Len(IndexesOf("next_back")) :
           IndexesOf("next_back")[k] = iter.to - k

\* what next() alone does: ascending from `from`, inside [from, to)
IterNextAscends ==
    \A k \in 1..Len(IndexesOf("next")) :
        /\ IndexesOf("next")[k] = iter.from + (k - 1)
        /\ IndexesOf("next")[k] < iter.to

\* the offsets of the backing storage
Inside == 0..(cap - 1)

\* the storage offsets touched by Ring::write of any source, by Ring::read of
\* size <= available() bytes and by ring[i] with i < available()
RingAccesses ==
    UNION {Ring_write(Here, src, Len(src), junk).wr :
               src \in RawSrcs, junk \in Bytes}
    \cup UNION {Ring_read(Call(Fill(size, 0)), size, junk).rd :
                    size \in {n \in 0..MaxRaw : n <= Ring_len(Here)}, junk \in Bytes}
    \cup {mask_idx(usize_add(read, i), cap) : i \in 0..(Ring_len(Here) - 1)}

(* C21: ring storage accesses stay inside the backing storage: for a        *)
(* power-of-two C every span copied by Ring write (any size), by Ring read  *)
(* with size <= available(), and every byte reached by ring[i] with         *)
(* i < available() lies at physical offsets within [0, C).                  *)
RingAccessesInsideStorage ==
    (IsRing /\ is_power_of_two(cap)) => RingAccesses \subseteq Inside

\* C21 restricted to the states where available() <= capacity()
RingAccessesInsideStorageWhenSound ==
    Ring_len(Here) <= cap => RingAccessesInsideStorage

\* only the cursor of r differs from the Buffer of the current state
OnlyCursorMoved(r) == r.inner = inner /\ r.read = read /\ r.wr = {}

\* the k bytes of the Buffer are read in full, set_len(j) is called, then
\* write_slice(bytes)
ReExpose(j, bytes, junk) ==
    LET k == Buffer_len(Here)
        held == Buffer_as_slice(Here, junk)
        r1 == read_slice(kind, Call(Fill(k, 0)), junk)
        r2 == Buffer_set_len(r1, j)
        r3 == write_slice(kind, r2, bytes, junk)
    IN  /\ r1.ret = k
        /\ r1.dst = held
        /\ Buffer_len(r1) = 0
        /\ OnlyCursorMoved(r1)
        /\ Buffer_as_slice(r2, junk) = SubSeq(held, 1, j)
        /\ Buffer_as_slice(r3, junk) = SubSeq(held, 1, j) \o SubSeq(bytes, 1, r3.ret)
        /\ r3.ret = Min(Len(bytes), cap - j)

(* C22: the cursor-only operations of a Buffer leave the storage untouched: *)
(* truncate(n), set_len(n) with n <= capacity() and consume(step) with      *)
(* step == len() change only the cursor; so after a full read of k written  *)
(* bytes, set_len(j) with j <= k re-exposes exactly the first j of those    *)
(* bytes and a following write appends after them.                          *)
CursorOnlyOpsKeepStorage ==
    IsStack =>
        /\ \A n \in 0..(cap + 1) : OnlyCursorMoved(Buffer_truncate(Here, n))
        /\ \A n \in 0..cap :
               /\ OnlyCursorMoved(Buffer_set_len(Here, n))
               /\ Buffer_len(Buffer_set_len(Here, n)) = n
        /\ \A junk \in Bytes :
               /\ OnlyCursorMoved(Buffer_consume(Here, Buffer_len(Here), junk))
               /\ Buffer_len(Buffer_consume(Here, Buffer_len(Here), junk)) = 0
        /\ \A j \in 0..Buffer_len(Here), bytes \in Slices, junk \in Bytes :
               ReExpose(j, bytes, junk)

\* set_len(j) has just re-exposed the first j > 0 of k > j bytes that a
\* read had taken out of the Buffer, two of them different
ReExposedAfterFullRead ==
    /\ IsStack
    /\ last.op = "set_len"
    /\ cursor = last.n
    /\ cursor >= 2
    /\ Len(hist.W) > cursor
    /\ Buffer_as_slice(Here, 0) = SubSeq(hist.W, 1, cursor)
    /\ hist.W[1] # hist.W[2]

(* C23: the Buffer returned by Ring::into_parts, after any sequence of ring *)
(* write_slice / read_slice calls, satisfies len() <= capacity(), so that   *)
(* its remaining() (capacity - cursor) does not underflow and its readable  *)
(* slice stays within the storage.                                          *)
IntoPartsBufferWithinCapacity ==
    (IsStack /\ last.op = "into_parts") =>
        /\ Buffer_len(Here) <= capacity(kind, Here)
        /\ Buffer_remaining(Here) = cap - cursor
        /\ Span(0, Buffer_len(Here)) \subseteq Inside

\* the elements a live iterator over [from, to) has still to yield
ToYield == (iter.to - iter.from) - Len(iter.yielded)

(* C24: for an iterator over [from, to) with from <= to, any interleaving   *)
(* of next() and next_back() yields exactly to - from elements in total;    *)
(* len(), size_hint() and count() always equal the number of elements still *)
(* to be yielded; and once None has been returned every later next() or     *)
(* next_back() also returns None.                                           *)
IterYieldsExactlyRange ==
    iter.alive =>
        /\ ToYield >= 0
        /\ Iter_len(iter.it) = ToYield
        /\ Iter_size_hint(iter.it) = <<ToYield, ToYield>>
        /\ Iter_count(iter.it) = ToYield
        /\ Iter_next(iter.it).some <=> ToYield > 0
        /\ Iter_next_back(iter.it).some <=> ToYield > 0
        /\ (last.op \in {"next", "next_back"} /\ last.ret = None) =>
               /\ Len(iter.yielded) = iter.to - iter.from
               /\ Iter_next(iter.it) = [it |-> iter.it, some |-> FALSE, idx |-> 0]
               /\ Iter_next_back(iter.it) = [it |-> iter.it, some |-> FALSE, idx |-> 0]

\* an iterator over three or more elements, driven from both ends, has been
\* exhausted and has returned None
IterExhaustedFromBothEnds ==
    /\ iter.alive
    /\ last.op = "next"
    /\ last.ret = None
    /\ Len(iter.yielded) = iter.to - iter.from
    /\ Len(iter.yielded) >= 3
    /\ Len(IndexesOf("next")) >= 1
    /\ Len(IndexesOf("next_back")) >= 1

====
